---- MODULE Spec2Model ----
(***************************************************************************)
(* A model of app.py: the YouTube playlist dashboard.                      *)
(*                                                                         *)
(* The state is the Flask session's credential, the token file, the usage  *)
(* log (api_logs_collection) and the position and locals of the request    *)
(* being handled.  Requests are handled one at a time; every external call *)
(* (a YouTube API call, a token refresh, a file write, a log insert) has a *)
(* nondeterministic outcome.                                               *)
(***************************************************************************)
EXTENDS Integers, Sequences, FiniteSets, TLC

\* ------------------------------------------------------------------ bounds
MaxItems == 2      \* longest identifier list in a request payload
MaxPages == 2      \* most pages the provider returns for one listing
MaxPageLen == 2    \* most items on one page
MaxApiLogs == 1    \* a request is started only while the log holds at most this
MaxNow == 2        \* last instant of the clock
TokenLife == 1     \* instants a fresh access token stays valid

\* ------------------------------------------------------------- python values
None == "None"

Truthy(x) == x # None /\ x # ""

\* Python's `a or b` on strings
Or(a, b) == IF Truthy(a) THEN a ELSE b

\* an expiry value: absent, an ISO-8601 string, a string that does not parse,
\* a datetime; a provider expiry_date is epoch milliseconds
NoExpiry == [kind |-> "none", at |-> 0]

IsoString(t) == [kind |-> "iso", at |-> t]

DateTime(t) == [kind |-> "datetime", at |-> t]

BadString == [kind |-> "badstr", at |-> 0]

EpochMs(t) == [kind |-> "ms", at |-> t]

SCOPES == <<"https://www.googleapis.com/auth/youtube">>

CLIENT_ID == "env_client_id"

CLIENT_SECRET == "env_client_secret"

GOOGLE_TOKEN_URI == "https://oauth2.googleapis.com/token"

\* A credential dict.  A key that is missing and a key that holds None read the
\* same through dict.get, so both are None here; the empty dict (and a None
\* result) is EmptyDict, the only falsy dict.
EmptyDict ==
  [token |-> None, access_token |-> None, refresh_token |-> None,
   token_uri |-> None, client_id |-> None, client_secret |-> None,
   scopes |-> <<>>, scope |-> <<>>, expiry |-> NoExpiry, expiry_date |-> NoExpiry]

\* google.oauth2.credentials.Credentials(**normalized)
Credentials(d) ==
  [token |-> d.token, refresh_token |-> d.refresh_token, token_uri |-> d.token_uri,
   client_id |-> d.client_id, client_secret |-> d.client_secret,
   scopes |-> d.scopes, expiry |-> d.expiry]

credentials_to_dict(credentials) ==
  [EmptyDict EXCEPT
     !.token = credentials.token,
     !.refresh_token = credentials.refresh_token,
     !.token_uri = credentials.token_uri,
     !.client_id = credentials.client_id,
     !.client_secret = credentials.client_secret,
     !.scopes = credentials.scopes,
     !.expiry = IF credentials.expiry.kind = "datetime"
                THEN IsoString(credentials.expiry.at) ELSE NoExpiry]

ParseExpiry_StringsOnly(expiry) ==
  IF expiry.kind = "iso" THEN DateTime(expiry.at) ELSE NoExpiry

\* the canonical branch's expiry handling: a string is parsed to a naive UTC
\* datetime, a string that does not parse is popped, anything else is kept
ParseExpiry(expiry) ==
  IF expiry.kind = "iso" THEN DateTime(expiry.at)
  ELSE IF expiry.kind = "badstr" THEN NoExpiry
  ELSE expiry

\* [s for s in scopes.split(" ") if s]
SplitScope(segs) == SelectSeq(segs, LAMBDA s : s # "")

normalize_saved_credentials(data) ==
  IF Truthy(data.token)
  THEN [data EXCEPT !.expiry = ParseExpiry(@)]
  ELSE IF Truthy(data.access_token)
  THEN [EmptyDict EXCEPT
          !.token = data.access_token,
          !.refresh_token = data.refresh_token,
          !.token_uri = Or(data.token_uri, GOOGLE_TOKEN_URI),
          !.client_id = Or(data.client_id, CLIENT_ID),
          !.client_secret = Or(data.client_secret, CLIENT_SECRET),
          !.scopes = IF data.scope # <<>> THEN SplitScope(data.scope)
                     ELSE IF data.scopes # <<>> THEN data.scopes
                     ELSE SCOPES,
          !.expiry = IF data.expiry_date.kind = "ms"
                     THEN DateTime(data.expiry_date.at) ELSE NoExpiry]
  ELSE EmptyDict

\* ------------------------------------------------------------- the token file
\* state: "absent" (no file), "unreadable" (OSError or JSONDecodeError on
\* reading it), "nondict" (JSON that is no object), "dict"
NoFile == [state |-> "absent", data |-> EmptyDict]

JsonFile(d) == [state |-> "dict", data |-> d]

load_saved_credentials(file) ==
  IF file.state = "dict" THEN normalize_saved_credentials(file.data) ELSE EmptyDict

\* `if not data.get(k) and existing.get(k): data[k] = existing.get(k)`
Keep(new, old) == IF ~Truthy(new) /\ Truthy(old) THEN old ELSE new

MergeExisting_DropsRefreshToken(data, existing) ==
  [data EXCEPT
     !.token_uri = Keep(@, existing.token_uri),
     !.client_id = Keep(@, existing.client_id),
     !.client_secret = Keep(@, existing.client_secret)]

MergeExisting(data, existing) ==
  [data EXCEPT
     !.refresh_token = Keep(@, existing.refresh_token),
     !.token_uri = Keep(@, existing.token_uri),
     !.client_id = Keep(@, existing.client_id),
     !.client_secret = Keep(@, existing.client_secret)]

\* writeOk = FALSE: makedirs or open raises OSError, which is swallowed and
\* leaves the file as it was
save_credentials(file, credentials, writeOk) ==
  LET existing == load_saved_credentials(file)
      data == MergeExisting(credentials_to_dict(credentials), existing)
  IN IF writeOk THEN JsonFile(data) ELSE file

\* --------------------------------------------------------------- credentials
\* google.auth's Credentials.expired: an expiry is set and has been reached
Expired(creds, t) == creds.expiry.kind = "datetime" /\ t >= creds.expiry.at

\* what creds.refresh(Request()) leaves in creds when the exchange succeeds
Refreshed(creds, t) ==
  [creds EXCEPT !.token = "refreshed_access_token", !.expiry = DateTime(t + TokenLife)]

NeedsRefresh_IgnoresRefreshToken(creds, t) == Expired(creds, t)

\* `if creds.expired and creds.refresh_token:`
NeedsRefresh(creds, t) == Expired(creds, t) /\ Truthy(creds.refresh_token)

\* The outcome of get_youtube_client(credentials_dict): its argument, what
\* normalize_saved_credentials made of it, the credential the client is built
\* on, whether creds.refresh raised, the token file afterwards and the external
\* steps taken, in order.
get_youtube_client(credentials_dict, file, t, refreshOk, writeOk) ==
  LET n == normalize_saved_credentials(credentials_dict)
      normalized == IF n # EmptyDict THEN n ELSE credentials_dict
      creds == Credentials(normalized)
      out == [raised |-> FALSE, given |-> credentials_dict, normalized |-> normalized,
              creds |-> creds, file |-> file, trace |-> <<>>]
  IN IF NeedsRefresh(creds, t)
     THEN IF refreshOk
          THEN [out EXCEPT !.creds = Refreshed(creds, t),
                           !.file = save_credentials(file, Refreshed(creds, t), writeOk),
                           !.trace = <<"refresh", "save">>]
          ELSE [out EXCEPT !.raised = TRUE, !.trace = <<"refresh">>]
     ELSE out

\* ------------------------------------------------------------------- state
VARIABLES
  session,    \* session["credentials"]: a credential dict, EmptyDict when unset
  tokenFile,  \* TOKEN_FILE
  now,        \* the clock
  mongoUp,    \* whether api_logs_collection.insert_one succeeds
  apiLogs,    \* number of documents in api_logs_collection
  req,        \* the request being handled, or the last one handled
  pc,         \* where its handler stands: "idle" when no request is in flight,
              \* "done" when the response is ready
  calls,      \* the YouTube API calls this request has issued, in order
  failures,   \* the handler's failures list
  resp,       \* the response, once pc = "done"
  loc,        \* the handler's locals
  client,     \* what get_youtube_client did for this request
  lastSave,   \* the last save_credentials call: its argument, the file before and after
  signedOut,  \* a logout has completed and no authorization has succeeded since
  savers      \* the save_credentials calls of overlapping requests: where each
              \* stands and its locals

vars ==
  <<session, tokenFile, now, mongoUp, apiLogs, req, pc, calls, failures, resp, loc,
    client, lastSave, signedOut, savers>>

\* ------------------------------------------------------------ request values
\* one element of a JSON list in a payload: a string ("str"), an object ("dict"),
\* or anything else ("other")
Element(kind, id, videoId) == [kind |-> kind, id |-> id, videoId |-> videoId]

Str(id) == Element("str", id, None)

\* A request: the handler h it is routed to, the number of log documents when it
\* came in (logs0), and its JSON payload.
Payload(is_list, items, target, dest, mode, name) ==
  [h |-> "none", logs0 |-> 0, is_list |-> is_list, items |-> items, target |-> target,
   dest |-> dest, mode |-> mode, name |-> name]

NoPayload == Payload(TRUE, <<>>, None, None, None, None)

NoLoc ==
  [todo |-> <<>>, src |-> 0, pages |-> 0, page |-> <<>>, more |-> FALSE,
   items |-> <<>>, queue |-> <<>>, added |-> 0, removed |-> 0, name |-> None]

NoClient ==
  [raised |-> FALSE, given |-> EmptyDict, normalized |-> EmptyDict,
   creds |-> Credentials(EmptyDict), file |-> NoFile, trace |-> <<>>]

NoSave ==
  [done |-> FALSE, before |-> NoFile, cred |-> Credentials(EmptyDict), after |-> NoFile]

\* a save_credentials call, for lastSave
SaveOf(credentials, before, after) ==
  [done |-> TRUE, before |-> before, cred |-> credentials, after |-> after]

\* lastSave after get_youtube_client returned c
Saved(c, before, last) ==
  IF c.trace = <<"refresh", "save">> THEN SaveOf(c.creds, before, c.file) ELSE last

Response(status, body, success, items) ==
  [status |-> status, body |-> body, success |-> success, items |-> items]

NoResp == Response(0, "", FALSE, <<>>)

\* an exception no handler catches: Flask answers 500
Unhandled == Response(500, "exception", FALSE, <<>>)

Failure(id, video, error) == [id |-> id, video |-> video, error |-> error]

\* {"success": len(failures) == 0, "failures": failures, ...}
BulkResult(fs) == Response(200, "result", Len(fs) = 0, <<>>)

\* all sequences over S of length lo..hi
SeqsOf(S, lo, hi) == UNION {[1..n -> S] : n \in lo..hi}

\* a playlist item as the provider lists it
Item(id, videoId, title) == [id |-> id, videoId |-> videoId, title |-> title]

\* the provider names the items of a listing; the k-th item listed is "item<k>"
ItemId(k) == "item" \o ToString(k)

WithIds(page, listed) ==
  [k \in 1..Len(page) |-> Item(ItemId(listed + k), page[k].videoId, page[k].title)]

\* the pages a list call may return
PagesOf(VideoIds, Titles) == SeqsOf([videoId : VideoIds, title : Titles], 0, MaxPageLen)

\* str(x).strip() on the names of the model
Strip(name) ==
  IF name = " " THEN "" ELSE IF name = " X " THEN "X" ELSE name

\* ------------------------------------------------------------- external calls
\* record_api_call: one document more in the log, or an exception when the
\* collection cannot be written
record_api_call(logs, up) == IF up THEN logs + 1 ELSE logs

ApiCall(op, arg, aux, ok) == [op |-> op, arg |-> arg, aux |-> aux, ok |-> ok]

\* `X.execute(); record_api_call(...)`: the call is issued; the log is written
\* only when execute() returned
LogAfter(provOk) == IF provOk THEN record_api_call(apiLogs, mongoUp) ELSE apiLogs

\* the two statements ran without raising
Completed(provOk) == provOk /\ mongoUp

\* str(exc) of what the two statements raised
ErrorOf(provOk) == IF provOk THEN "log write failed" ELSE "provider error"

\* `credentials = session.get("credentials") or load_saved_credentials()`
CurrentCredentials ==
  IF session # EmptyDict THEN session ELSE load_saved_credentials(tokenFile)

\* whether get_youtube_client would refresh the credential in hand now
WillRefresh ==
  LET n == normalize_saved_credentials(CurrentCredentials)
  IN NeedsRefresh(Credentials(IF n # EmptyDict THEN n ELSE CurrentCredentials), now)

\* the outcomes of a step that is taken only when `taken`
Outcomes(taken) == IF taken THEN BOOLEAN ELSE {TRUE}

\* the request is answered
Answer(r) == pc' = "done" /\ resp' = r

\* The head of every JSON handler: the credential check, the payload validation
\* (verr is its error message, "" when the payload is accepted), then
\* get_youtube_client; loc0 and nextpc are the locals and position the handler's
\* body starts from.
Begin(h, p, verr, refreshOk, writeOk, nextpc, loc0) ==
  LET credentials == CurrentCredentials
      c == get_youtube_client(credentials, tokenFile, now, refreshOk, writeOk)
  IN /\ pc = "idle"
     /\ apiLogs <= MaxApiLogs
     /\ req' = [p EXCEPT !.h = h, !.logs0 = apiLogs]
     /\ calls' = <<>>
     /\ failures' = <<>>
     /\ UNCHANGED <<session, now, mongoUp, savers, apiLogs, signedOut>>
     /\ IF credentials = EmptyDict
        THEN /\ Answer(Response(401, "Not authenticated", FALSE, <<>>))
             /\ loc' = NoLoc /\ client' = NoClient
             /\ UNCHANGED <<tokenFile, lastSave, signedOut>>
        ELSE IF verr # ""
        THEN /\ Answer(Response(400, verr, FALSE, <<>>))
             /\ loc' = NoLoc /\ client' = NoClient
             /\ UNCHANGED <<tokenFile, lastSave, signedOut>>
        ELSE /\ client' = c
             /\ tokenFile' = c.file
             /\ lastSave' = Saved(c, tokenFile, lastSave)
             /\ IF c.raised
                THEN Answer(Unhandled) /\ loc' = NoLoc
                ELSE resp' = NoResp /\ pc' = nextpc /\ loc' = loc0

\* ------------------------------------------------- delete_bulk, items/delete-bulk
\* `ids = payload.get(key) or []; if not isinstance(ids, list) or not ids:`
ValidateList(p, message) == IF ~p.is_list \/ p.items = <<>> THEN message ELSE ""

\* one iteration of `for x in ids: try: delete(x); record_api_call() except: ...`
BulkDeleteStep(h, op) ==
  /\ pc = "loop" /\ req.h = h
  /\ \E provOk \in BOOLEAN :
       LET id == Head(loc.todo).id
           fs == IF Completed(provOk) THEN failures
                 ELSE Append(failures, Failure(id, None, ErrorOf(provOk)))
       IN /\ calls' = Append(calls, ApiCall(op, id, None, provOk))
          /\ apiLogs' = LogAfter(provOk)
          /\ failures' = fs
          /\ loc' = [loc EXCEPT !.todo = Tail(@)]
          /\ IF Tail(loc.todo) = <<>>
             THEN Answer(BulkResult(fs))
             ELSE UNCHANGED <<pc, resp>>
  /\ UNCHANGED <<session, tokenFile, now, mongoUp, savers, req, client, lastSave, signedOut>>

DeleteBulkBegin(P) ==
  /\ pc = "idle"
  /\ \E p \in P, refreshOk \in Outcomes(WillRefresh) :
     \E writeOk \in Outcomes(WillRefresh /\ refreshOk) :
    Begin("delete_bulk", p, ValidateList(p, "No playlists provided"), refreshOk, writeOk,
          "loop", [NoLoc EXCEPT !.todo = p.items])

DeleteBulkStep == BulkDeleteStep("delete_bulk", "playlists.delete")

DeleteItemsBulkBegin(P) ==
  /\ pc = "idle"
  /\ \E p \in P, refreshOk \in Outcomes(WillRefresh) :
     \E writeOk \in Outcomes(WillRefresh /\ refreshOk) :
    Begin("delete_playlist_items_bulk", p, ValidateList(p, "No items provided"),
          refreshOk, writeOk, "loop", [NoLoc EXCEPT !.todo = p.items])

DeleteItemsBulkStep == BulkDeleteStep("delete_playlist_items_bulk", "playlistItems.delete")

\* ------------------------------------------------------------ import_videos
ImportBegin(P) ==
  /\ pc = "idle"
  /\ \E p \in P, refreshOk \in Outcomes(WillRefresh) :
     \E writeOk \in Outcomes(WillRefresh /\ refreshOk) :
    Begin("import_videos", p, ValidateList(p, "No video IDs provided"), refreshOk, writeOk,
          "loop", [NoLoc EXCEPT !.todo = p.items])

\* one iteration of `for video_id in video_ids:`
ImportStep ==
  /\ pc = "loop" /\ req.h = "import_videos"
  /\ \E provOk \in BOOLEAN :
       LET video_id == Head(loc.todo)
           skipped == ~Truthy(video_id.id) \/ video_id.kind # "str"
           fs == IF skipped \/ Completed(provOk) THEN failures
                 ELSE Append(failures, Failure(None, video_id.id, ErrorOf(provOk)))
       IN /\ skipped => provOk
          /\ calls' = IF skipped THEN calls
                      ELSE Append(calls, ApiCall("playlistItems.insert", video_id.id,
                                                 req.target, provOk))
          /\ apiLogs' = IF skipped THEN apiLogs ELSE LogAfter(provOk)
          /\ failures' = fs
          /\ loc' = [loc EXCEPT !.todo = Tail(@),
                                !.added = IF ~skipped /\ Completed(provOk) THEN @ + 1 ELSE @]
          /\ IF Tail(loc.todo) = <<>>
             THEN Answer(BulkResult(fs))
             ELSE UNCHANGED <<pc, resp>>
  /\ UNCHANGED <<session, tokenFile, now, mongoUp, savers, req, client, lastSave, signedOut>>

\* ------------------------------------------------------ transfer_playlist_items
\* `mode = payload.get("mode") or "copy"`
ModeOf(p) == Or(p.mode, "copy")

ValidateTransfer(p) ==
  IF ModeOf(p) \notin {"copy", "move"} THEN "Invalid transfer mode"
  ELSE IF ~Truthy(p.dest) THEN "Destination playlist is required"
  ELSE ValidateList(p, "No items provided")

TransferBegin(P) ==
  /\ pc = "idle"
  /\ \E p \in P, refreshOk \in Outcomes(WillRefresh) :
     \E writeOk \in Outcomes(WillRefresh /\ refreshOk) :
    Begin("transfer_playlist_items", p, ValidateTransfer(p), refreshOk, writeOk,
          "insert", [NoLoc EXCEPT !.todo = p.items])

QueuesDelete_OnAttempt(called, completed, mode, playlist_item_id) ==
  called /\ mode = "move" /\ Truthy(playlist_item_id)

\* `if mode == "move" and playlist_item_id: delete_after.append(...)`, reached
\* only when the insert and its log write did not raise
QueuesDelete(called, completed, mode, playlist_item_id) ==
  called /\ completed /\ mode = "move" /\ Truthy(playlist_item_id)

\* one iteration of `for item in items:`
TransferInsertStep ==
  /\ pc = "insert" /\ req.h = "transfer_playlist_items"
  /\ \E provOk \in BOOLEAN :
       LET item == Head(loc.todo)
           notDict == item.kind # "dict"
           missing == ~notDict /\ ~Truthy(item.videoId)
           called == ~notDict /\ ~missing
           fs == IF missing
                 THEN Append(failures, Failure(None, item.videoId, "Missing videoId"))
                 ELSE IF called /\ ~Completed(provOk)
                 THEN Append(failures, Failure(None, item.videoId, ErrorOf(provOk)))
                 ELSE failures
           delete_after == IF QueuesDelete(called, Completed(provOk), ModeOf(req), item.id)
                           THEN Append(loc.queue, item.id) ELSE loc.queue
       IN /\ ~called => provOk
          /\ calls' = IF called
                      THEN Append(calls, ApiCall("playlistItems.insert", item.videoId,
                                                 req.dest, provOk))
                      ELSE calls
          /\ apiLogs' = IF called THEN LogAfter(provOk) ELSE apiLogs
          /\ failures' = fs
          /\ loc' = [loc EXCEPT !.todo = Tail(@), !.queue = delete_after,
                                !.added = IF called /\ Completed(provOk) THEN @ + 1 ELSE @]
          /\ IF Tail(loc.todo) # <<>> THEN UNCHANGED <<pc, resp>>
             ELSE IF ModeOf(req) = "move" /\ delete_after # <<>>
             THEN pc' = "delete" /\ UNCHANGED resp
             ELSE Answer(BulkResult(fs))
  /\ UNCHANGED <<session, tokenFile, now, mongoUp, savers, req, client, lastSave, signedOut>>

\* one iteration of `for item_id in delete_after:`
TransferDeleteStep ==
  /\ pc = "delete" /\ req.h = "transfer_playlist_items"
  /\ \E provOk \in BOOLEAN :
       LET item_id == Head(loc.queue)
           fs == IF Completed(provOk) THEN failures
                 ELSE Append(failures, Failure(item_id, None, ErrorOf(provOk)))
       IN /\ calls' = Append(calls, ApiCall("playlistItems.delete", item_id, None, provOk))
          /\ apiLogs' = LogAfter(provOk)
          /\ failures' = fs
          /\ loc' = [loc EXCEPT !.queue = Tail(@),
                                !.removed = IF Completed(provOk) THEN @ + 1 ELSE @]
          /\ IF Tail(loc.queue) = <<>>
             THEN Answer(BulkResult(fs))
             ELSE UNCHANGED <<pc, resp>>
  /\ UNCHANGED <<session, tokenFile, now, mongoUp, savers, req, client, lastSave, signedOut>>

\* ------------------------------------------------------------ dedupe_playlist
NoArgsBegin(h, P, nextpc) ==
  /\ pc = "idle"
  /\ \E p \in P, refreshOk \in Outcomes(WillRefresh) :
     \E writeOk \in Outcomes(WillRefresh /\ refreshOk) :
    Begin(h, p, "", refreshOk, writeOk, nextpc, NoLoc)

DedupeBegin(P) == NoArgsBegin("dedupe_playlist", P, "list")

RECURSIVE DuplicateIds_KeepsLast(_, _)
DuplicateIds_KeepsLast(items, seen) ==
  IF items = <<>> THEN <<>>
  ELSE LET item == Head(items)
           later == {Tail(items)[k].videoId : k \in 1..(Len(items) - 1)}
       IN IF ~Truthy(item.videoId) \/ ~Truthy(item.id)
          THEN DuplicateIds_KeepsLast(Tail(items), seen)
          ELSE IF item.videoId \in later
          THEN <<item.id>> \o DuplicateIds_KeepsLast(Tail(items), seen)
          ELSE DuplicateIds_KeepsLast(Tail(items), seen)

\* the scan `for item in items:` over seen_video_ids; the result is
\* duplicate_item_ids
RECURSIVE DuplicateIds(_, _)
DuplicateIds(items, seen) ==
  IF items = <<>> THEN <<>>
  ELSE LET item == Head(items)
       IN IF ~Truthy(item.videoId) \/ ~Truthy(item.id)
          THEN DuplicateIds(Tail(items), seen)
          ELSE IF item.videoId \in seen
          THEN <<item.id>> \o DuplicateIds(Tail(items), seen)
          ELSE DuplicateIds(Tail(items), seen \cup {item.videoId})

\* one iteration of `while request_page is not None:`, and after the last one
\* the scan for duplicates
DedupeListStep(Pages) ==
  /\ pc = "list" /\ req.h = "dedupe_playlist"
  /\ \E provOk \in BOOLEAN, page \in Pages, more \in BOOLEAN :
       LET items == loc.items \o WithIds(page, Len(loc.items))
           duplicate_item_ids == DuplicateIds(items, {})
       IN /\ more => loc.pages + 1 < MaxPages
          /\ ~Completed(provOk) => (page = <<>> /\ ~more)
          /\ calls' = Append(calls, ApiCall("playlistItems.list", req.target, None, provOk))
          /\ apiLogs' = LogAfter(provOk)
          /\ IF ~Completed(provOk)
             THEN Answer(Unhandled) /\ UNCHANGED loc
             ELSE IF more
             THEN /\ loc' = [loc EXCEPT !.items = items, !.pages = @ + 1]
                  /\ UNCHANGED <<pc, resp>>
             ELSE /\ loc' = [loc EXCEPT !.items = items, !.pages = @ + 1,
                                        !.queue = duplicate_item_ids,
                                        !.todo = duplicate_item_ids]
                  /\ IF duplicate_item_ids = <<>>
                     THEN Answer(BulkResult(<<>>))
                     ELSE pc' = "delete" /\ UNCHANGED resp
  /\ UNCHANGED <<session, tokenFile, now, mongoUp, savers, req, failures, client, lastSave, signedOut>>

\* one iteration of `for item_id in duplicate_item_ids:`
DedupeDeleteStep ==
  /\ pc = "delete" /\ req.h = "dedupe_playlist"
  /\ \E provOk \in BOOLEAN :
       LET item_id == Head(loc.todo)
           fs == IF Completed(provOk) THEN failures
                 ELSE Append(failures, Failure(item_id, None, ErrorOf(provOk)))
       IN /\ calls' = Append(calls, ApiCall("playlistItems.delete", item_id, None, provOk))
          /\ apiLogs' = LogAfter(provOk)
          /\ failures' = fs
          /\ loc' = [loc EXCEPT !.todo = Tail(@),
                                !.removed = Len(loc.queue) - Len(fs)]
          /\ IF Tail(loc.todo) = <<>>
             THEN Answer(BulkResult(fs))
             ELSE UNCHANGED <<pc, resp>>
  /\ UNCHANGED <<session, tokenFile, now, mongoUp, savers, req, client, lastSave, signedOut>>

\* ------------------------------------------------------------- playlist_items
ItemsBegin(P) == NoArgsBegin("playlist_items", P, "list")

Sentinels_DeletedOnly == {"Deleted video"}

\* `if title in ("Deleted video", "Private video"):`
Sentinels == {"Deleted video", "Private video"}

\* `title = snippet.get("title") or ""`
TitleOf(item) == Or(item.title, "")

IsOrphan(item) == TitleOf(item) \in Sentinels

\* the entry of `simplified` for an item
Simplified(item) == Item(item.id, item.videoId, TitleOf(item))

\* the list call and the loop that splits the page into `simplified` and
\* `deleted_item_ids`
ItemsListStep(Pages) ==
  /\ pc = "list" /\ req.h = "playlist_items"
  /\ \E provOk \in BOOLEAN, page \in Pages :
       LET items == WithIds(page, 0)
           kept == SelectSeq(items, LAMBDA item : ~IsOrphan(item))
           orphans == SelectSeq(items, LAMBDA item : IsOrphan(item))
           simplified == [k \in 1..Len(kept) |-> Simplified(kept[k])]
           deleted_item_ids == [k \in 1..Len(orphans) |-> orphans[k].id]
       IN /\ ~Completed(provOk) => page = <<>>
          /\ calls' = Append(calls, ApiCall("playlistItems.list", req.target, None, provOk))
          /\ apiLogs' = LogAfter(provOk)
          /\ IF ~Completed(provOk)
             THEN Answer(Unhandled) /\ UNCHANGED loc
             ELSE /\ loc' = [loc EXCEPT !.page = items, !.items = simplified,
                                        !.queue = deleted_item_ids,
                                        !.todo = deleted_item_ids]
                  /\ IF deleted_item_ids = <<>>
                     THEN Answer(Response(200, "items", TRUE, simplified))
                     ELSE pc' = "prune" /\ UNCHANGED resp
  /\ UNCHANGED <<session, tokenFile, now, mongoUp, savers, req, failures, client, lastSave, signedOut>>

\* one iteration of `for pid in deleted_item_ids: try: ... except Exception: pass`
ItemsPruneStep ==
  /\ pc = "prune" /\ req.h = "playlist_items"
  /\ \E provOk \in BOOLEAN :
       /\ calls' = Append(calls, ApiCall("playlistItems.delete", Head(loc.todo), None, provOk))
       /\ apiLogs' = LogAfter(provOk)
       /\ loc' = [loc EXCEPT !.todo = Tail(@),
                             !.removed = IF Completed(provOk) THEN @ + 1 ELSE @]
       /\ IF Tail(loc.todo) = <<>>
          THEN Answer(Response(200, "items", TRUE, loc.items))
          ELSE UNCHANGED <<pc, resp>>
  /\ UNCHANGED <<session, tokenFile, now, mongoUp, savers, req, failures, client, lastSave, signedOut>>

\* ------------------------------------------------------------ rename_playlist
\* `if new_name is not None: new_name = str(new_name).strip()`
NewName(name) == IF name # None THEN Strip(name) ELSE None

ValidateRename(p) == IF ~Truthy(NewName(p.name)) THEN "New name is required" ELSE ""

RenameBegin(P) ==
  /\ pc = "idle"
  /\ \E p \in P, refreshOk \in Outcomes(WillRefresh) :
     \E writeOk \in Outcomes(WillRefresh /\ refreshOk) :
    Begin("rename_playlist", p, ValidateRename(p), refreshOk, writeOk, "list",
          [NoLoc EXCEPT !.name = NewName(p.name)])

\* `existing = youtube.playlists().list(...).execute()` inside the try
RenameListStep ==
  /\ pc = "list" /\ req.h = "rename_playlist"
  /\ \E provOk, found \in BOOLEAN :
       /\ ~Completed(provOk) => found
       /\ calls' = Append(calls, ApiCall("playlists.list", req.target, None, provOk))
       /\ apiLogs' = LogAfter(provOk)
       /\ IF ~Completed(provOk)
          THEN Answer(Response(400, ErrorOf(provOk), FALSE, <<>>))
          ELSE IF ~found
          THEN Answer(Response(404, "Playlist not found", FALSE, <<>>))
          ELSE pc' = "update" /\ UNCHANGED resp
  /\ UNCHANGED <<session, tokenFile, now, mongoUp, savers, req, failures, loc, client, lastSave, signedOut>>

RenameUpdateStep ==
  /\ pc = "update" /\ req.h = "rename_playlist"
  /\ \E provOk \in BOOLEAN :
       /\ calls' = Append(calls, ApiCall("playlists.update", req.target, loc.name, provOk))
       /\ apiLogs' = LogAfter(provOk)
       /\ IF Completed(provOk)
          THEN Answer(Response(200, "renamed", TRUE, <<>>))
          ELSE Answer(Response(400, ErrorOf(provOk), FALSE, <<>>))
  /\ UNCHANGED <<session, tokenFile, now, mongoUp, savers, req, failures, loc, client, lastSave, signedOut>>

\* ------------------------------------------------------------ delete_playlist
\* as Begin, but a missing credential redirects to the index page
DeletePlaylistBegin(P) ==
  /\ pc = "idle"
  /\ \E p \in P, refreshOk \in Outcomes(WillRefresh) :
     \E writeOk \in Outcomes(WillRefresh /\ refreshOk) :
    LET credentials == CurrentCredentials
        c == get_youtube_client(credentials, tokenFile, now, refreshOk, writeOk)
    IN /\ apiLogs <= MaxApiLogs
       /\ req' = [p EXCEPT !.h = "delete_playlist", !.logs0 = apiLogs]
       /\ calls' = <<>>
       /\ failures' = <<>>
       /\ loc' = NoLoc
       /\ UNCHANGED <<session, now, mongoUp, savers, apiLogs, signedOut>>
       /\ IF credentials = EmptyDict
          THEN /\ Answer(Response(302, "index", FALSE, <<>>))
               /\ client' = NoClient
               /\ UNCHANGED <<tokenFile, lastSave, signedOut>>
          ELSE /\ client' = c
               /\ tokenFile' = c.file
               /\ lastSave' = Saved(c, tokenFile, lastSave)
               /\ IF c.raised
                  THEN Answer(Unhandled)
                  ELSE resp' = NoResp /\ pc' = "delete"

DeletePlaylistStep ==
  /\ pc = "delete" /\ req.h = "delete_playlist"
  /\ \E provOk \in BOOLEAN :
       /\ calls' = Append(calls, ApiCall("playlists.delete", req.target, None, provOk))
       /\ apiLogs' = LogAfter(provOk)
       /\ IF Completed(provOk)
          THEN Answer(Response(200, "deleted", TRUE, <<>>))
          ELSE Answer(Response(400, ErrorOf(provOk), FALSE, <<>>))
  /\ UNCHANGED <<session, tokenFile, now, mongoUp, savers, req, failures, loc, client, lastSave, signedOut>>

\* ------------------------------------------------------------ merge_playlists
ValidateMerge(p) ==
  IF ~Truthy(p.target) \/ ~p.is_list \/ Len(p.items) < 1
  THEN "Invalid playlist selection"
  ELSE IF p.name # None /\ ~Truthy(NewName(p.name)) THEN "New name is required"
  ELSE ""

MergeBegin(P) ==
  /\ pc = "idle"
  /\ \E p \in P, refreshOk \in Outcomes(WillRefresh) :
     \E writeOk \in Outcomes(WillRefresh /\ refreshOk) :
    Begin("merge_playlists", p, ValidateMerge(p), refreshOk, writeOk, "list",
          [NoLoc EXCEPT !.src = 1, !.todo = p.items, !.name = NewName(p.name)])

\* Where the first pass stands once the items of a page are done:
\* `request_page = list_next(...)`, then the next source, then the second pass.
AfterPage(l) ==
  IF l.more THEN [pc |-> "list", loc |-> l]
  ELSE IF l.src < Len(req.items)
  THEN [pc |-> "list", loc |-> [l EXCEPT !.src = @ + 1, !.pages = 0]]
  ELSE [pc |-> "delete", loc |-> l]

\* `response = request_page.execute(); record_api_call(...)` of the first pass;
\* neither statement is inside a try
MergeListStep(Pages) ==
  /\ pc = "list" /\ req.h = "merge_playlists"
  /\ \E provOk \in BOOLEAN, page \in Pages, more \in BOOLEAN :
       LET playlist_id == req.items[loc.src].id
           \* `if not video_id: continue`
           withVideo == SelectSeq(page, LAMBDA item : Truthy(item.videoId))
           l == [loc EXCEPT !.page = withVideo, !.more = more, !.pages = @ + 1]
       IN /\ more => loc.pages + 1 < MaxPages
          /\ ~Completed(provOk) => (page = <<>> /\ ~more)
          /\ calls' = Append(calls, ApiCall("playlistItems.list", playlist_id, None, provOk))
          /\ apiLogs' = LogAfter(provOk)
          /\ IF ~Completed(provOk)
             THEN Answer(Unhandled) /\ UNCHANGED loc
             ELSE IF withVideo # <<>>
             THEN pc' = "insert" /\ loc' = l /\ UNCHANGED resp
             ELSE pc' = AfterPage(l).pc /\ loc' = AfterPage(l).loc /\ UNCHANGED resp
  /\ UNCHANGED <<session, tokenFile, now, mongoUp, savers, req, failures, client, lastSave, signedOut>>

\* one iteration of `for item in response.get("items", []):`
MergeInsertStep ==
  /\ pc = "insert" /\ req.h = "merge_playlists"
  /\ \E provOk \in BOOLEAN :
       LET playlist_id == req.items[loc.src].id
           video_id == Head(loc.page).videoId
           l == [loc EXCEPT !.page = Tail(@),
                            !.added = IF Completed(provOk) THEN @ + 1 ELSE @]
       IN /\ calls' = Append(calls, ApiCall("playlistItems.insert", video_id,
                                            req.target, provOk))
          /\ apiLogs' = LogAfter(provOk)
          /\ failures' = IF Completed(provOk) THEN failures
                         ELSE Append(failures, Failure(playlist_id, video_id, ErrorOf(provOk)))
          /\ IF l.page # <<>>
             THEN loc' = l /\ UNCHANGED pc
             ELSE pc' = AfterPage(l).pc /\ loc' = AfterPage(l).loc
  /\ UNCHANGED <<session, tokenFile, now, mongoUp, savers, req, resp, client, lastSave, signedOut>>

\* one iteration of the second pass, `for playlist_id in source_ids:`
MergeDeleteStep ==
  /\ pc = "delete" /\ req.h = "merge_playlists"
  /\ \E provOk \in BOOLEAN :
       LET playlist_id == Head(loc.todo).id
           fs == IF Completed(provOk) THEN failures
                 ELSE Append(failures, Failure(playlist_id, None, ErrorOf(provOk)))
       IN /\ calls' = Append(calls, ApiCall("playlists.delete", playlist_id, None, provOk))
          /\ apiLogs' = LogAfter(provOk)
          /\ failures' = fs
          /\ loc' = [loc EXCEPT !.todo = Tail(@)]
          /\ IF Tail(loc.todo) # <<>> THEN UNCHANGED <<pc, resp>>
             ELSE IF Truthy(loc.name) THEN pc' = "rename" /\ UNCHANGED resp
             ELSE Answer(BulkResult(fs))
  /\ UNCHANGED <<session, tokenFile, now, mongoUp, savers, req, client, lastSave, signedOut>>

\* the third pass, `if new_name:`
MergeRenameStep ==
  /\ pc = "rename" /\ req.h = "merge_playlists"
  /\ \E provOk \in BOOLEAN :
       LET fs == IF Completed(provOk) THEN failures
                 ELSE Append(failures, Failure(req.target, None, ErrorOf(provOk)))
       IN /\ calls' = Append(calls, ApiCall("playlists.update", req.target, loc.name, provOk))
          /\ apiLogs' = LogAfter(provOk)
          /\ failures' = fs
          /\ Answer(BulkResult(fs))
  /\ UNCHANGED <<session, tokenFile, now, mongoUp, savers, req, loc, client, lastSave, signedOut>>

\* ---------------------------------------------------------- index, get_playlists
IndexBegin ==
  /\ pc = "idle"
  /\ \E refreshOk \in Outcomes(WillRefresh) :
     \E writeOk \in Outcomes(WillRefresh /\ refreshOk) :
    LET saved_credentials == load_saved_credentials(tokenFile)
        credentials == IF session # EmptyDict THEN session ELSE saved_credentials
        c == get_youtube_client(credentials, tokenFile, now, refreshOk, writeOk)
    IN /\ apiLogs <= MaxApiLogs
       /\ req' = [NoPayload EXCEPT !.h = "index", !.logs0 = apiLogs]
       /\ calls' = <<>>
       /\ failures' = <<>>
       /\ loc' = NoLoc
       /\ session' = credentials
       /\ UNCHANGED <<now, mongoUp, savers, apiLogs, signedOut>>
       /\ IF credentials = EmptyDict
          THEN /\ Answer(Response(200, "index.html", FALSE, <<>>))
               /\ client' = NoClient
               /\ UNCHANGED <<tokenFile, lastSave, signedOut>>
          ELSE /\ client' = c
               /\ tokenFile' = c.file
               /\ lastSave' = Saved(c, tokenFile, lastSave)
               /\ IF c.raised
                  THEN Answer(Response(200, "error.html", FALSE, <<>>))
                  ELSE resp' = NoResp /\ pc' = "list"

\* one iteration of get_playlists' `while request_page is not None:`; after the
\* last one the page is rendered, which reads the log (get_api_calls_today)
IndexListStep ==
  /\ pc = "list" /\ req.h = "index"
  /\ \E provOk, more \in BOOLEAN :
       /\ more => loc.pages + 1 < MaxPages
       /\ ~Completed(provOk) => ~more
       /\ calls' = Append(calls, ApiCall("playlists.list", None, None, provOk))
       /\ apiLogs' = LogAfter(provOk)
       /\ loc' = [loc EXCEPT !.pages = @ + 1]
       /\ IF ~Completed(provOk)
          THEN Answer(Response(200, "error.html", FALSE, <<>>))
          ELSE IF more THEN UNCHANGED <<pc, resp>>
          ELSE Answer(Response(200, "playlists.html", TRUE, <<>>))
  /\ UNCHANGED <<session, tokenFile, now, mongoUp, savers, req, failures, client, lastSave, signedOut>>

\* ------------------------------------------------------ oauth2callback, logout
\* flow.credentials after a successful fetch_token at instant t
Grant(refresh_token, token_uri, client_id, client_secret, t) ==
  [token |-> "access_token", refresh_token |-> refresh_token, token_uri |-> token_uri,
   client_id |-> client_id, client_secret |-> client_secret, scopes |-> SCOPES,
   expiry |-> DateTime(t + TokenLife)]

OAuth2Callback(RefreshTokens, Uris, Ids, Secrets) ==
  /\ pc = "idle"
  /\ \E rt \in RefreshTokens, uri \in Uris, id \in Ids, sec \in Secrets,
     fetchOk, writeOk \in BOOLEAN :
    LET credentials == Grant(rt, uri, id, sec, now)
    IN /\ req' = [NoPayload EXCEPT !.h = "oauth2callback", !.logs0 = apiLogs]
       /\ calls' = <<>>
       /\ failures' = <<>>
       /\ loc' = NoLoc
       /\ client' = NoClient
       /\ UNCHANGED <<now, mongoUp, savers, apiLogs>>
       /\ IF ~fetchOk
          THEN /\ Answer(Unhandled)
               /\ UNCHANGED <<session, tokenFile, lastSave, signedOut>>
          ELSE /\ session' = credentials_to_dict(credentials)
               /\ tokenFile' = save_credentials(tokenFile, credentials, writeOk)
               /\ lastSave' = SaveOf(credentials, tokenFile,
                                      save_credentials(tokenFile, credentials, writeOk))
               /\ signedOut' = FALSE
               /\ Answer(Response(302, "index", TRUE, <<>>))

\* removeOk = FALSE: os.remove raises OSError, which is passed over
RemoveFile(file, removeOk) ==
  IF file.state # "absent" /\ removeOk THEN NoFile ELSE file

Logout ==
  \E removeOk \in BOOLEAN :
    /\ pc = "idle"
    /\ req' = [NoPayload EXCEPT !.h = "logout", !.logs0 = apiLogs]
    /\ session' = EmptyDict
    /\ tokenFile' = RemoveFile(tokenFile, removeOk)
    /\ calls' = <<>>
    /\ failures' = <<>>
    /\ loc' = NoLoc
    /\ client' = NoClient
    /\ Answer(Response(302, "index", TRUE, <<>>))
    /\ signedOut' = TRUE
    /\ UNCHANGED <<now, mongoUp, savers, apiLogs, lastSave>>

\* ------------------------------------- save_credentials in overlapping requests
\* no save in progress besides the one of the request being handled
NoSavers == <<>>

\* a save_credentials(credentials) call that has not read the file yet
Saver(credentials) == [at |-> "load", credentials |-> credentials, data |-> EmptyDict]

\* a token file json.load cannot read: empty after open(..., "w"), or bytes of
\* two writes mixed
Unreadable == [state |-> "unreadable", data |-> EmptyDict]

\* `existing = load_saved_credentials() or {}` and the merge into data
SaveLoadStep(i) ==
  /\ savers[i].at = "load"
  /\ savers' = [savers EXCEPT
                  ![i].at = "open",
                  ![i].data = MergeExisting(credentials_to_dict(savers[i].credentials),
                                            load_saved_credentials(tokenFile))]
  /\ UNCHANGED <<session, tokenFile, now, mongoUp, apiLogs, req, pc, calls, failures,
                 resp, loc, client, lastSave, signedOut>>

\* `open(TOKEN_FILE, "w")` truncates the file; an OSError ends the save
SaveOpenStep(i) ==
  /\ savers[i].at = "open"
  /\ \E openOk \in BOOLEAN :
       IF openOk
       THEN tokenFile' = Unreadable /\ savers' = [savers EXCEPT ![i].at = "write"]
       ELSE UNCHANGED tokenFile /\ savers' = [savers EXCEPT ![i].at = "done"]
  /\ UNCHANGED <<session, now, mongoUp, apiLogs, req, pc, calls, failures, resp, loc,
                 client, lastSave, signedOut>>

\* `json.dump(data, token_file)` and the close.  The write starts at offset 0 of
\* this handle: over a record another handle wrote since the truncation it
\* leaves this record, or a mix of the two when this one is the shorter.
SaveWriteStep(i) ==
  /\ savers[i].at = "write"
  /\ tokenFile' \in IF tokenFile.state = "dict" /\ tokenFile.data # savers[i].data
                     THEN {JsonFile(savers[i].data), Unreadable}
                     ELSE {JsonFile(savers[i].data)}
  /\ savers' = [savers EXCEPT ![i].at = "done"]
  /\ UNCHANGED <<session, now, mongoUp, apiLogs, req, pc, calls, failures, resp, loc,
                 client, lastSave, signedOut>>

\* ------------------------------------------------------------ the environment
\* the clock is read only by get_youtube_client, at the head of a handler
Tick ==
  /\ pc = "idle"
  /\ now < MaxNow
  /\ now' = now + 1
  /\ UNCHANGED <<session, tokenFile, mongoUp, savers, apiLogs, req, pc, calls, failures, resp,
                 loc, client, lastSave, signedOut>>

MongoDown ==
  /\ mongoUp
  /\ mongoUp' = FALSE
  /\ UNCHANGED <<session, tokenFile, now, apiLogs, savers, req, pc, calls, failures, resp, loc,
                 client, lastSave, signedOut>>

MongoRecover ==
  /\ ~mongoUp
  /\ mongoUp' = TRUE
  /\ UNCHANGED <<session, tokenFile, now, apiLogs, savers, req, pc, calls, failures, resp, loc,
                 client, lastSave, signedOut>>

\* the response is sent and the handler's locals are gone
Return ==
  /\ pc = "done"
  /\ pc' = "idle"
  /\ req' = NoPayload /\ calls' = <<>> /\ failures' = <<>>
  /\ resp' = NoResp /\ loc' = NoLoc /\ client' = NoClient
  /\ UNCHANGED <<session, tokenFile, now, mongoUp, savers, apiLogs, lastSave, signedOut>>

\* the purge at process start: the documents of earlier days are deleted
Startup ==
  /\ pc = "idle"
  /\ mongoUp
  /\ \E kept \in 0..apiLogs : apiLogs' = kept
  /\ UNCHANGED <<session, tokenFile, now, mongoUp, savers, req, pc, calls, failures, resp, loc,
                 client, lastSave, signedOut>>

\* ------------------------------------------------------- requests of the model
ListOf(ids) == [k \in 1..Len(ids) |-> Str(ids[k])]

\* payload.get(key) that is no list: a string, a number, an object
NotAList == Payload(FALSE, <<>>, "PL", "D", None, None)

BulkPayloads ==
  {Payload(TRUE, ListOf(ids), "PL", None, None, None) : ids \in SeqsOf({"a", "b"}, 0, MaxItems)}
    \cup {NotAList}

ImportElements == {Str("v1"), Str(""), Element("other", None, None)}

ImportPayloads ==
  {Payload(TRUE, items, "PL", None, None, None) : items \in SeqsOf(ImportElements, 0, MaxItems)}
    \cup {NotAList}

TransferElements ==
  {Element("dict", "a", "v1"), Element("dict", "b", "v2"), Element("dict", None, "v1"),
   Element("dict", "a", None), Element("other", None, None)}

TransferPayloads ==
  {Payload(TRUE, items, "PL", "D", mode, None) :
     items \in SeqsOf(TransferElements, 0, MaxItems), mode \in {None, "move"}}
    \cup {Payload(TRUE, <<Element("dict", "a", "v1")>>, "PL", "D", "sync", None),
          Payload(TRUE, <<Element("dict", "a", "v1")>>, "PL", None, "copy", None),
          NotAList}

PlaylistPayloads == {Payload(TRUE, <<>>, "PL", None, None, None)}

RenamePayloads ==
  {Payload(TRUE, <<>>, "PL", None, None, name) : name \in {None, "", " ", "X", " X "}}

DedupePages == PagesOf({"v1", "v2", None}, {"title"})

ItemsPages == PagesOf({"v1"}, {"Deleted video", "Private video", "My video", None})

\* the source lists of a merge: the sublists of <<A, B, T>>, T being the target
RECURSIVE SubLists(_)
SubLists(ids) ==
  IF ids = <<>> THEN {<<>>}
  ELSE LET rest == SubLists(Tail(ids))
       IN rest \cup {<<Head(ids)>> \o r : r \in rest}

MergePayloads ==
  {Payload(TRUE, ListOf(ids), target, None, None, name) :
     ids \in {l \in SubLists(<<"A", "B", "T">>) : Len(l) <= MaxItems},
     target \in {None, "T"}, name \in {None, " ", "X"}}
    \cup {NotAList}

MergePages == {<<>>, <<[videoId |-> "v1", title |-> "title"]>>,
               <<[videoId |-> None, title |-> "title"]>>}

\* session["credentials"] after an authorization at instant t
SessionOf(refresh_token, t) ==
  credentials_to_dict(Grant(refresh_token, GOOGLE_TOKEN_URI, CLIENT_ID, CLIENT_SECRET, t))

\* ------------------------------------------------------------ specifications
InitRequest ==
  /\ req = NoPayload /\ pc = "idle" /\ calls = <<>> /\ failures = <<>>
  /\ resp = NoResp /\ loc = NoLoc /\ client = NoClient /\ lastSave = NoSave
  /\ signedOut = FALSE
  /\ savers = NoSavers

\* The request handlers over the provider: signed out, signed in, or signed in
\* with an access token that has run out.
Init ==
  /\ session \in {EmptyDict, SessionOf("r1", 0), SessionOf("r1", 0 - TokenLife)}
  /\ tokenFile = NoFile
  /\ now = 0
  /\ mongoUp = TRUE
  /\ apiLogs = 0
  /\ InitRequest

Next ==
  \/ DeleteBulkBegin(BulkPayloads) \/ DeleteBulkStep
  \/ DeleteItemsBulkBegin(BulkPayloads) \/ DeleteItemsBulkStep
  \/ ImportBegin(ImportPayloads) \/ ImportStep
  \/ TransferBegin(TransferPayloads) \/ TransferInsertStep \/ TransferDeleteStep
  \/ DedupeBegin(PlaylistPayloads) \/ DedupeListStep(DedupePages) \/ DedupeDeleteStep
  \/ ItemsBegin(PlaylistPayloads) \/ ItemsListStep(ItemsPages) \/ ItemsPruneStep
  \/ RenameBegin(RenamePayloads) \/ RenameListStep \/ RenameUpdateStep
  \/ DeletePlaylistBegin(PlaylistPayloads) \/ DeletePlaylistStep
  \/ IndexBegin \/ IndexListStep
  \/ Return \/ MongoDown \/ MongoRecover \/ Startup

Spec == Init /\ [][Next]_vars

\* merge_playlists alone
InitMerge ==
  /\ session \in {EmptyDict, SessionOf("r1", 0)}
  /\ tokenFile = NoFile
  /\ now = 0
  /\ mongoUp = TRUE
  /\ apiLogs = 0
  /\ InitRequest

NextMerge ==
  \/ MergeBegin(MergePayloads) \/ MergeListStep(MergePages)
  \/ MergeInsertStep \/ MergeDeleteStep \/ MergeRenameStep
  \/ Return \/ MongoDown \/ MongoRecover \/ Startup

SpecMerge == InitMerge /\ [][NextMerge]_vars

\* The credential lifecycle: authorization, the index page, one bulk request,
\* logout, and the clock.  The token file may be there before the first
\* authorization, in the provider's shape or damaged.
ProviderRecord(refresh_token) ==
  [EmptyDict EXCEPT !.access_token = "provider_access_token",
                    !.refresh_token = refresh_token,
                    !.scope = <<"https://www.googleapis.com/auth/youtube", "", "openid">>,
                    !.expiry_date = EpochMs(0)]

InitialFiles ==
  {NoFile, [state |-> "unreadable", data |-> EmptyDict],
   [state |-> "nondict", data |-> EmptyDict],
   JsonFile(ProviderRecord("r0")), JsonFile(ProviderRecord(None)),
   JsonFile([EmptyDict EXCEPT !.refresh_token = "r0"])}

AuthBulkPayloads ==
  {Payload(TRUE, <<Str("a")>>, "PL", None, None, None),
   Payload(TRUE, <<>>, "PL", None, None, None)}

InitAuth ==
  /\ session = EmptyDict
  /\ tokenFile \in InitialFiles
  /\ now = 0
  /\ mongoUp = TRUE
  /\ apiLogs = 0
  /\ InitRequest

NextAuth ==
  \/ OAuth2Callback({None, "r1"}, {GOOGLE_TOKEN_URI}, {CLIENT_ID}, {CLIENT_SECRET})
  \/ Logout
  \/ IndexBegin \/ IndexListStep
  \/ DeleteBulkBegin(AuthBulkPayloads) \/ DeleteBulkStep
  \/ Return \/ Tick \/ Startup

SpecAuth == InitAuth /\ [][NextAuth]_vars

\* The credential store under authorizations of every shape: a grant may lack
\* the refresh token, the token endpoint, the client id or the client secret.
InitStore ==
  /\ session = EmptyDict
  /\ tokenFile \in InitialFiles
  /\ now = 0
  /\ mongoUp = TRUE
  /\ apiLogs = 0
  /\ InitRequest

NextStore ==
  \/ OAuth2Callback({None, "r1", "r2"}, {None, GOOGLE_TOKEN_URI}, {None, "client_id"},
                    {None, "client_secret"})
  \/ IndexBegin \/ IndexListStep
  \/ Return

SpecStore == InitStore /\ [][NextStore]_vars

\* normalize_saved_credentials on token files in the provider's shape: the index
\* page loads the file (the first normalization) and hands the result to
\* get_youtube_client (the second).
NativeRecords ==
  {[EmptyDict EXCEPT !.access_token = "provider_access_token",
                     !.refresh_token = rt, !.token_uri = uri, !.client_id = id,
                     !.client_secret = sec, !.scope = scope, !.expiry_date = ed] :
     rt \in {None, "r0"}, uri \in {None, GOOGLE_TOKEN_URI}, id \in {None, "client_id"},
     sec \in {None, "client_secret"},
     scope \in {<<>>, <<"s1">>, <<"s1", "", "s2">>, <<"", "">>},
     ed \in {NoExpiry} \cup {EpochMs(t) : t \in 0..MaxNow}}

InitNormalize ==
  /\ session = EmptyDict
  /\ tokenFile \in {JsonFile(d) : d \in NativeRecords}
  /\ now = 0
  /\ mongoUp = TRUE
  /\ apiLogs = 0
  /\ InitRequest

NextNormalize ==
  \/ IndexBegin \/ IndexListStep
  \/ Return

SpecNormalize == InitNormalize /\ [][NextNormalize]_vars

\* Two requests save a credential without a refresh token at the same time,
\* over a token file that holds one.
RaceCredentials ==
  {Grant(None, uri, CLIENT_ID, sec, 0) :
     uri \in {None, GOOGLE_TOKEN_URI}, sec \in {None, CLIENT_SECRET}}

InitRace ==
  /\ session = EmptyDict
  /\ tokenFile \in {JsonFile(SessionOf("r0", 0)), JsonFile(ProviderRecord("r0"))}
  /\ now = 0
  /\ mongoUp = TRUE
  /\ apiLogs = 0
  /\ req = NoPayload /\ pc = "idle" /\ calls = <<>> /\ failures = <<>>
  /\ resp = NoResp /\ loc = NoLoc /\ client = NoClient /\ lastSave = NoSave
  /\ signedOut = FALSE
  /\ savers \in [1..2 -> {Saver(c) : c \in RaceCredentials}]

NextRace ==
  \/ \E i \in 1..2 : SaveLoadStep(i)
  \/ \E i \in 1..2 : SaveOpenStep(i)
  \/ \E i \in 1..2 : SaveWriteStep(i)

SpecRace == InitRace /\ [][NextRace]_vars

\* ----------------------------------------------------------------- properties
\* the arguments of the calls of one operation the request has issued, in order
ArgsOf(op) ==
  LET s == SelectSeq(calls, LAMBDA c : c.op = op)
  IN [k \in 1..Len(s) |-> s[k].arg]

IsPrefix(s, t) == Len(s) <= Len(t) /\ \A k \in 1..Len(s) : s[k] = t[k]

\* the ids of a list of payload elements or listed items
IdsOf(items) == [k \in 1..Len(items) |-> items[k].id]

\* the handler got past the credential check, the validation and
\* get_youtube_client, and has answered
Served(h) ==
  req.h = h /\ pc = "done" /\ resp.status \notin {400, 401} /\ ~client.raised

\* C1: a merge runs its three passes in order (copy every source's items into
\* the target, delete every source, rename the target when a name was given),
\* and a failing list or insert call on one source prevents neither the delete of
\* the other sources nor the rename.
C1_MergeRunsEveryPass ==
  Served("merge_playlists") =>
    /\ resp.body = "result"
    /\ ArgsOf("playlists.delete") = IdsOf(req.items)
    /\ Truthy(loc.name) => calls[Len(calls)].op = "playlists.update"
    /\ \A i, j \in 1..Len(calls) :
         (i < j /\ calls[i].op = "playlists.delete")
           => calls[j].op \in {"playlists.delete", "playlists.update"}

\* C2: a bulk delete of n ids of which k provider deletes fail issues n delete
\* calls, in input order, and answers success = (k = 0) with exactly the k failed
\* ids as failures.
C2_BulkDeleteReportsFailedIds ==
  (Served("delete_bulk") \/ Served("delete_playlist_items_bulk")) =>
    LET failed == SelectSeq(calls, LAMBDA c : ~c.ok)
    IN /\ [k \in 1..Len(calls) |-> calls[k].arg] = IdsOf(req.items)
       /\ resp.body = "result"
       /\ resp.success = (failed = <<>>)
       /\ IdsOf(failures) = [k \in 1..Len(failed) |-> failed[k].arg]

LaterOccurrence(items, j) ==
  /\ Truthy(items[j].videoId)
  /\ \E i \in 1..(j - 1) : items[i].videoId = items[j].videoId

\* the ids of the later occurrences, in listing order
LaterOccurrenceIds(items) ==
  LET at == SelectSeq([j \in 1..Len(items) |-> j], LAMBDA j : LaterOccurrence(items, j))
  IN [k \in 1..Len(at) |-> items[at[k]].id]

\* the listing of the dedupe request ran to its last page
DedupeListed ==
  /\ req.h = "dedupe_playlist"
  /\ pc = "delete" \/ (pc = "done" /\ resp.body = "result")

\* C4: dedupe keeps the first occurrence of every video and queues the later
\* ones, and the delete calls are exactly the queued items, each once, in order.
C4_DedupeDeletesLaterOccurrences ==
  /\ req.h = "dedupe_playlist"
       => IsPrefix(ArgsOf("playlistItems.delete"), LaterOccurrenceIds(loc.items))
  /\ DedupeListed
       => /\ loc.queue = LaterOccurrenceIds(loc.items)
          /\ ArgsOf("playlistItems.delete") \o loc.todo = loc.queue
  /\ (DedupeListed /\ pc = "done")
       => ArgsOf("playlistItems.delete") = LaterOccurrenceIds(loc.items)

\* a video listed three times, across two pages: the second and third items
\* were deleted, the second delete after the first had failed
C4_Witness ==
  /\ DedupeListed /\ pc = "done"
  /\ Len(loc.items) >= 3
  /\ loc.pages = 2
  /\ Truthy(loc.items[1].videoId)
  /\ loc.items[2].videoId = loc.items[1].videoId
  /\ loc.items[3].videoId = loc.items[1].videoId
  /\ ArgsOf("playlistItems.delete") = <<loc.items[2].id, loc.items[3].id>>
  /\ ~calls[Len(calls) - 1].ok

\* the messages of the handlers' payload checks
ValidationMessages ==
  {"No playlists provided", "No items provided", "No video IDs provided",
   "Invalid transfer mode", "Destination playlist is required",
   "Invalid playlist selection", "New name is required"}

\* an element of a transfer's items or an import's video_ids that cannot be used
MalformedElement(h, e) ==
  IF h = "transfer_playlist_items" THEN e.kind # "dict" \/ ~Truthy(e.videoId)
  ELSE IF h = "import_videos" THEN e.kind # "str" \/ ~Truthy(e.id)
  ELSE FALSE

\* C5: a request that fails validation (a wrong top-level field, or a malformed
\* element in a transfer's items or an import's video_ids) is rejected before any
\* external call: no state has both a validation error and a call of the request.
C5_ValidationBeforeExternalCalls ==
  LET reported == \/ resp.status = 400 /\ resp.body \in ValidationMessages
                  \/ \E k \in 1..Len(failures) : failures[k].error = "Missing videoId"
      malformed == \E k \in 1..Len(req.items) : MalformedElement(req.h, req.items[k])
  IN (reported \/ malformed) => calls = <<>>

\* C7: every external call of a request, successful or failed, appends exactly
\* one entry to the usage log.
C7_EveryCallLogged ==
  pc # "idle" => apiLogs - req.logs0 = Len(calls)

\* C8: an unavailable usage log neither fails a request nor changes what it
\* answers: no failure is reported for a log write, and a request whose provider
\* calls all succeeded does not end in an error.
C8_LogOutageChangesNothing ==
  /\ \A k \in 1..Len(failures) : failures[k].error # "log write failed"
  /\ resp.body # "log write failed"
  /\ (pc = "done" /\ calls # <<>> /\ \A k \in 1..Len(calls) : calls[k].ok)
       => resp.body \notin {"exception", "error.html"}

\* the credential dict handed to get_youtube_client carries an expiry that has
\* been reached
GivenExpired ==
  LET d == client.given
  IN IF Truthy(d.token) THEN d.expiry.kind \in {"iso", "datetime"} /\ d.expiry.at <= now
     ELSE IF Truthy(d.access_token)
     THEN d.expiry_date.kind = "ms" /\ d.expiry_date.at <= now
     ELSE FALSE

\* C6: get_youtube_client refreshes, and then saves, exactly when the credential
\* it loads is expired and has a refresh token; an expired credential without a
\* refresh token is returned as it is, with no refresh; a refresh that fails is
\* attempted once, saves nothing, and its error reaches the caller.
C6_RefreshIffExpiredWithRefreshToken ==
  LET has == Truthy(client.given.refresh_token)
      normalized == normalize_saved_credentials(client.given)
  IN /\ client.trace \in {<<>>, <<"refresh">>, <<"refresh", "save">>}
     /\ (client.trace # <<>>) <=> (GivenExpired /\ has)
     /\ (client.trace = <<"refresh", "save">>) <=> (GivenExpired /\ has /\ ~client.raised)
     /\ (GivenExpired /\ ~has)
          => /\ ~client.raised
             /\ client.creds = Credentials(normalized)
             /\ client.file = tokenFile
     /\ client.trace = <<"refresh", "save">>
          => /\ lastSave.done /\ lastSave.cred = client.creds
             /\ tokenFile = lastSave.after
             /\ client.creds.expiry = DateTime(now + TokenLife)
     /\ client.raised
          => /\ client.trace = <<"refresh">>
             /\ client.file = tokenFile
             /\ calls = <<>>
             /\ pc = "done" /\ resp.body \in {"exception", "error.html"}

\* an expired credential with a refresh token was refreshed and the refreshed
\* credential was written to the token file
C6_Witness ==
  /\ GivenExpired
  /\ Truthy(client.given.refresh_token)
  /\ client.trace = <<"refresh", "save">>
  /\ tokenFile.state = "dict"
  /\ tokenFile.data.token = "refreshed_access_token"
  /\ tokenFile # lastSave.before

\* the page of the playlist_items request was listed
ItemsListed ==
  /\ req.h = "playlist_items"
  /\ pc = "prune" \/ (pc = "done" /\ (resp.body = "items" \/ Len(calls) > 1))

\* the items of the listed page whose title is one of the two placeholder titles
OrphansOf(page) ==
  SelectSeq(page, LAMBDA item : item.title \in {"Deleted video", "Private video"})

\* C9: the items request leaves every item titled "Deleted video" or
\* "Private video" out of the returned items and issues exactly one delete call
\* for each; a delete that fails stops neither the remaining deletes nor the
\* response.
C9_OrphansExcludedAndDeletedOnce ==
  ItemsListed =>
    LET orphans == IdsOf(OrphansOf(loc.page))
        kept == SelectSeq(loc.page, LAMBDA item : item.id \notin {orphans[k] : k \in 1..Len(orphans)})
    IN /\ ArgsOf("playlistItems.delete") \o loc.todo = orphans
       /\ IdsOf(loc.items) = IdsOf(kept)
       /\ pc = "done"
            => /\ resp.status = 200 /\ resp.body = "items"
               /\ resp.items = loc.items
               /\ ArgsOf("playlistItems.delete") = orphans
               /\ failures = <<>>

\* a page of two orphans: the delete of the first failed, the second was still
\* deleted and the items were returned
C9_Witness ==
  /\ ItemsListed /\ pc = "done"
  /\ Len(OrphansOf(loc.page)) = 2
  /\ OrphansOf(loc.page)[1].title # OrphansOf(loc.page)[2].title
  /\ Len(calls) = 3
  /\ ~calls[2].ok
  /\ calls[3].ok
  /\ resp.body = "items"

\* C10: once a logout has completed, the session credential and the credential
\* of the token file are gone, and until a new authorization every request finds no credential and
\* issues no external call.
C10_LogoutRemovesCredential ==
  signedOut =>
    /\ session = EmptyDict
    /\ load_saved_credentials(tokenFile) = EmptyDict
    /\ calls = <<>>
    /\ client = NoClient

\* a record in the provider's shape: access_token, scope, expiry_date
ProviderNative(d) ==
  /\ Truthy(d.access_token) /\ ~Truthy(d.token)
  /\ d.expiry = NoExpiry
  /\ d.expiry_date.kind \in {"none", "ms"}

\* C11: for every record d in the provider's shape, normalizing the normalized
\* record gives the normalized record again: the second call returns the
\* canonical structure unchanged.
C11_NormalizeIdempotent ==
  /\ (tokenFile.state = "dict" /\ ProviderNative(tokenFile.data))
       => LET once == normalize_saved_credentials(tokenFile.data)
          IN /\ once # EmptyDict
             /\ normalize_saved_credentials(once) = once
  /\ client # NoClient => client.normalized = client.given

\* a provider record with a doubled space in its scope and an expiry_date was
\* loaded and normalized a second time by get_youtube_client
C11_Witness ==
  /\ tokenFile.state = "dict" /\ ProviderNative(tokenFile.data)
  /\ tokenFile.data.scope = <<"s1", "", "s2">>
  /\ tokenFile.data.expiry_date.kind = "ms"
  /\ client # NoClient
  /\ client.given = normalize_saved_credentials(tokenFile.data)
  /\ client.normalized.scopes = <<"s1", "s2">>
  /\ client.normalized.expiry = DateTime(tokenFile.data.expiry_date.at)
  /\ client.normalized.token = "provider_access_token"

\* the positions of the calls of one operation
CallsAt(op) == {i \in 1..Len(calls) : calls[i].op = op}

\* C12: a transfer in mode "move" deletes a source item only after an insert of
\* its video succeeded in the same request, and issues every delete after all
\* inserts; a transfer in mode "copy" issues no delete.
C12_MoveDeletesOnlyInserted ==
  req.h = "transfer_playlist_items" =>
    /\ ModeOf(req) # "move" => CallsAt("playlistItems.delete") = {}
    /\ \A i \in CallsAt("playlistItems.delete"), j \in CallsAt("playlistItems.insert") : j < i
    /\ \A i \in CallsAt("playlistItems.delete") :
         \E j \in CallsAt("playlistItems.insert"), k \in 1..Len(req.items) :
           /\ calls[j].ok
           /\ req.items[k].kind = "dict"
           /\ req.items[k].id = calls[i].arg
           /\ req.items[k].videoId = calls[j].arg
    /\ \A e \in {req.items[k] : k \in 1..Len(req.items)} :
         Cardinality({i \in CallsAt("playlistItems.delete") : calls[i].arg = e.id})
           <= Cardinality({j \in CallsAt("playlistItems.insert") :
                             /\ calls[j].ok
                             /\ \E k \in 1..Len(req.items) :
                                  /\ req.items[k].id = e.id
                                  /\ req.items[k].videoId = calls[j].arg})

\* a move of two items: the insert of the first failed, the insert of the second
\* succeeded, and only the second was deleted from the source
C12_Witness ==
  /\ req.h = "transfer_playlist_items" /\ pc = "done"
  /\ ModeOf(req) = "move"
  /\ IdsOf(req.items) = <<"a", "b">>
  /\ Len(calls) = 3
  /\ calls[1].op = "playlistItems.insert" /\ ~calls[1].ok
  /\ calls[2].op = "playlistItems.insert" /\ calls[2].ok
  /\ calls[3].op = "playlistItems.delete" /\ calls[3].arg = "b"

\* C13: a merge never issues a delete for its target playlist, also when the
\* target is among the sources.
C13_MergeNeverDeletesTarget ==
  req.h = "merge_playlists"
    => \A i \in CallsAt("playlists.delete") : calls[i].arg # req.target

\* C14: when two overlapping requests save a credential without a refresh token,
\* their loads, truncating opens and writes interleaved in any order, the refresh
\* token the file held before is still in the record it holds after both saves.
C14_RefreshTokenSurvivesOverlappingSaves ==
  (/\ savers # NoSavers
   /\ \A i \in DOMAIN savers : savers[i].at = "done"
   /\ tokenFile.state = "dict")
    => load_saved_credentials(tokenFile).refresh_token = "r0"

====
